---------------------------- MODULE Spec2Model ----------------------------
(***************************************************************************)
(* Glances: the CPU plugin (glances/plugins/cpu/model.py) and the Rich     *)
(* front end (glances/outputs/glances_rich.py).                            *)
(*                                                                         *)
(* Three specifications share this module:                                 *)
(*   SpecCpu     PluginModel.update / update_local / update_snmp /         *)
(*               msg_curse                                                 *)
(*   SpecLayout  GlancesRich.update_layout / plugins_to_rich /             *)
(*               _plugin_to_rich / _get_width / _get_height                *)
(*   SpecUpdate  GlancesRich.update (the refresh loop)                     *)
(* Each leaves the variables of the other two untouched.                   *)
(***************************************************************************)
EXTENDS Integers, Sequences, FiniteSets, TLC

VARIABLES
    \* ---- PluginModel (cpu) ----
    input_method,           \* self.input_method
    short_system_name,      \* self.short_system_name
    has_cpu_stats_old,      \* hasattr(self, 'cpu_stats_old')
    cpu_stats_old,          \* self.cpu_stats_old (raw counters of the previous sample)
    stats,                  \* self.stats (the Snapshot)
    cpu_status,             \* "ok", or "raised" once update() let an exception out
    last_call,              \* the most recent PluginModel method that ran
    curse,                  \* what the most recent msg_curse did
    snmp_unavailable,       \* the most recent SNMP answer lacked a remote field
    header,                 \* the trends of the header the most recent msg_curse built
    \* ---- GlancesRich: update_layout ----
    plugins,                \* the stats object: what each plugin answers when asked
    layout,                 \* self.layout, the tree of regions
    stats_display,          \* the descriptors the latest plugins_to_rich built
    layout_status,          \* "ok", or "raised" once update_layout let an exception out
    layout_exc,             \* the exception the latest update_layout let out ("" when none)
    prev_layout,            \* self.layout as it was when the latest update_layout began
    compose_run,            \* update_layout calls made on this stats object (up to 2)
    max_processes,          \* glances_processes.max_processes (0: not set)
    \* ---- GlancesRich: update (times in tenths of a second) ----
    upd_pc,                 \* where update() stands
    arg_duration,           \* the duration update() was called with
    duration,               \* the local duration, after the floor
    warned,                 \* this call logged the refresh_time warning
    countdown,              \* the Timer: time left until its target
    isexitkey,              \* the local isexitkey
    pressedkey,             \* the local pressedkey
    kb,                     \* the keyboard buffer behind self.kb
    ret,                    \* what the latest update() returned
    keys_read,              \* the keys getch() handed to this call
    cancel_at_entry,        \* a cancel key headed the buffer when this call began
    redraws,                \* live.update(..., refresh=True) calls of this call
    sleeps                  \* the durations this call passed to time.sleep

cpuVars == <<input_method, short_system_name, has_cpu_stats_old, cpu_stats_old,
             stats, cpu_status, last_call, curse, snmp_unavailable, header>>

layoutVars == <<plugins, layout, stats_display, layout_status, layout_exc, prev_layout,
                compose_run, max_processes>>

updVars == <<upd_pc, arg_duration, duration, warned, countdown, isexitkey, pressedkey,
             kb, ret, keys_read, cancel_at_entry, redraws, sleeps>>

vars == <<cpuVars, layoutVars, updVars>>

-----------------------------------------------------------------------------
(***************************************************************************)
(* Bounds                                                                  *)
(***************************************************************************)
\* raw cumulative counters read from psutil.cpu_stats() range over 0..MaxRaw
MaxRaw == 1
\* getTimeSinceLastUpdate('cpu') ranges over 1..MaxElapsed
MaxElapsed == 2
\* an SNMP bulk walk answers with the rows percent.1 .. percent.n, n <= MaxCores
MaxCores == 3
\* at most MaxDeviating plugins of a stats object answer out of the ordinary
MaxDeviating == 2
\* update() is called with a duration of at most MaxDuration tenths of a second
MaxDuration == 2
\* the keyboard buffer holds at most MaxKeys keys
MaxKeys == 2
\* the clock is followed until MaxLate tenths past the countdown's target
MaxLate == 1

Max(a, b) == IF a >= b THEN a ELSE b

EmptyDict == [k \in {} |-> 0]

-----------------------------------------------------------------------------
(***************************************************************************)
(* glances/outputs/glances_rich.py: the layout                             *)
(***************************************************************************)

\* the zones, each in render order.  The model keeps of every zone its special
\* members (cpu, quicklook, processlist, now) and one ordinary panel.
_top == <<"cpu", "mem", "quicklook">>

_middle_left == <<"network">>

_middle_left_width == 34

_middle_right == <<"processlist", "alert">>

_bottom == <<"now">>

AllPlugins == _top \o _middle_left \o _middle_right \o _bottom

PluginNames == {AllPlugins[i] : i \in DOMAIN AllPlugins}

Range(seq) == {seq[i] : i \in DOMAIN seq}

NL == "\n"

\* str.capitalize() of a plugin name
capitalize(p) ==
    CASE p = "cpu" -> "Cpu" [] p = "mem" -> "Mem" [] p = "quicklook" -> "Quicklook"
      [] p = "network" -> "Network" [] p = "processlist" -> "Processlist"
      [] p = "alert" -> "Alert" [] p = "now" -> "Now" [] OTHER -> p

\* u(u(nativestr(c)).encode('ascii', 'replace')) of one character
ascii_replace(c) == IF c \in {"a", "b", "c", "d", NL} THEN c ELSE "?"

\* msgdict contents, each msg a sequence of characters
OneLine == << [msg |-> <<"a", "b">>, optional |-> FALSE] >>

TwoLines == << [msg |-> <<"a", "b", "c">>, optional |-> FALSE],
               [msg |-> <<NL>>, optional |-> FALSE],
               [msg |-> <<"d">>, optional |-> TRUE] >>

\* what get_stats_display() may return: well-formed ...
GoodDisplays ==
    { [display |-> d, msgdict |-> [iterable |-> TRUE, items |-> m]] :
          d \in BOOLEAN, m \in {<< >>, OneLine, TwoLines} }

\* ... or malformed: no msgdict, a msgdict that is no sequence, an entry without
\* 'msg', an entry without 'optional'
BadDisplays ==
    { [display |-> TRUE],
      [display |-> TRUE, msgdict |-> [iterable |-> FALSE, items |-> << >>]],
      [display |-> TRUE, msgdict |-> [iterable |-> TRUE, items |-> << [optional |-> FALSE] >>]],
      [display |-> TRUE, msgdict |-> [iterable |-> TRUE, items |-> << [msg |-> <<"a">>] >>]] }

\* what the stats object may answer for one plugin: the plugin is not in
\* getPluginsList ("absent"), get_plugin is falsy ("none"), get_stats_display
\* raises ("raise"), or it returns ("ok")
Answers ==
    { [fetch |-> "absent"], [fetch |-> "none"], [fetch |-> "raise"] }
    \cup { [fetch |-> "ok", stat_display |-> sd] : sd \in GoodDisplays \cup BadDisplays }

\* the ordinary answer: an enabled plugin with one line of content
Nominal == [fetch |-> "ok",
            stat_display |-> [display |-> TRUE,
                              msgdict |-> [iterable |-> TRUE, items |-> OneLine]]]

\* "[i['msg'] for i in stats_display['msgdict']]" can be evaluated
msgs_readable(sd) ==
    /\ "msgdict" \in DOMAIN sd
    /\ sd.msgdict.iterable
    /\ \A i \in DOMAIN sd.msgdict.items : "msg" \in DOMAIN sd.msgdict.items[i]

RECURSIVE join(_)
\* ''.join(...) of a sequence of character sequences
join(seqs) == IF seqs = << >> THEN << >> ELSE Head(seqs) \o join(Tail(seqs))

RECURSIVE longest_line(_, _, _)
\* len(max(text.split('\n'), key=len)): cur is the length of the line being read
longest_line(text, cur, best) ==
    IF text = << >> THEN Max(cur, best)
    ELSE IF Head(text) = NL THEN longest_line(Tail(text), 0, Max(cur, best))
    ELSE longest_line(Tail(text), cur + 1, best)

\* _get_width()
_get_width(sd, without_option) ==
    LET items == sd.msgdict.items
        raises == IF ~("msgdict" \in DOMAIN sd) THEN TRUE
                  ELSE IF ~sd.msgdict.iterable THEN TRUE
                  ELSE IF without_option
                  THEN \E i \in DOMAIN items :
                          \/ "optional" \notin DOMAIN items[i]
                          \/ (~items[i].optional /\ "msg" \notin DOMAIN items[i])
                  ELSE \E i \in DOMAIN items : "msg" \notin DOMAIN items[i]
        text == join([i \in DOMAIN items |->
                        IF without_option /\ items[i].optional THEN << >>
                        ELSE [j \in DOMAIN items[i].msg |-> ascii_replace(items[i].msg[j])]])
    IN  IF raises THEN 0 ELSE longest_line(text, 0, 0)

\* _get_height()
_get_height(sd) ==
    IF ~msgs_readable(sd) THEN 0
    ELSE Cardinality({i \in DOMAIN sd.msgdict.items : sd.msgdict.items[i].msg = <<NL>>}) + 1

\* _plugin_to_rich(): exc is the exception let out ("" when none), ret the descriptor
_plugin_to_rich(answer, plugin) ==
    LET default == [title |-> "", subtitle |-> "", data |-> << >>,
                    width |-> 0, height |-> 0, display |-> FALSE]
        sd == answer.stat_display
    IN  IF answer.fetch = "none" THEN [exc |-> "", ret |-> default]
        ELSE IF answer.fetch = "raise" THEN [exc |-> "Exception", ret |-> default]
        ELSE IF ~("msgdict" \in DOMAIN sd) THEN [exc |-> "KeyError", ret |-> default]
        ELSE IF ~sd.msgdict.iterable THEN [exc |-> "TypeError", ret |-> default]
        ELSE IF ~msgs_readable(sd) THEN [exc |-> "KeyError", ret |-> default]
        ELSE [exc |-> "",
              ret |-> [title    |-> capitalize(plugin),
                       subtitle |-> "",
                       data     |-> join([i \in DOMAIN sd.msgdict.items |-> sd.msgdict.items[i].msg]),
                       width    |-> _get_width(sd, FALSE) + 4,
                       height   |-> _get_height(sd) + 2,
                       display  |-> sd.display]]

RECURSIVE plugins_to_rich(_, _, _)
\* plugins_to_rich(): the descriptors of the plugins of getPluginsList, in order;
\* acc carries ret, the exception of the first plugin that raised, and
\* glances_processes.max_processes
plugins_to_rich(st, todo, acc) ==
    IF todo = << >> \/ acc.exc # "" THEN acc
    ELSE LET p == Head(todo)
         IN  IF st[p].fetch = "absent" THEN plugins_to_rich(st, Tail(todo), acc)
             ELSE LET r == _plugin_to_rich(st[p], p)
                  IN  plugins_to_rich(st, Tail(todo),
                          [exc |-> r.exc,
                           ret |-> IF r.exc = "" THEN (p :> r.ret) @@ acc.ret ELSE acc.ret,
                           max_processes |-> IF p = "processlist" /\ st[p].fetch # "none"
                                             THEN 10 ELSE acc.max_processes])

\* a Layout(...) region: its name, its fixed size if it has one, whether it holds a Panel
Region(name, sized, size, panel) ==
    [name |-> name, sized |-> sized, size |-> size, panel |-> panel]

\* Layout(): a region without children.  The tree is kept as the children of each
\* split region, by the region's name.
EmptyLayout ==
    [root |-> << >>, top |-> << >>, middle |-> << >>, middle_left |-> << >>,
     middle_right |-> << >>, bottom |-> << >>]

\* the split regions below a region
below(parent) ==
    CASE parent = "root" -> {"top", "middle", "middle_left", "middle_right", "bottom"}
      [] parent = "middle" -> {"middle_left", "middle_right"}
      [] OTHER -> {}

\* Layout.add_split: the new regions are appended to the children already there
add_split(l, parent, kids) == [l EXCEPT ![parent] = @ \o kids]

\* Layout.split_row / split_column: the new regions replace the children
split(l, parent, kids) ==
    [k \in DOMAIN l |-> IF k = parent THEN kids
                        ELSE IF k \in below(parent) THEN << >>
                        ELSE l[k]]

\* a plugin is composed: "stats_display[p]['display'] and len(stats_display[p]['data']) > 0"
included(sd, p) == sd[p].display /\ Len(sd[p].data) > 0

\* the sub-sequence of a zone's plugins that are composed
composed_of(sd, zone) == SelectSeq(zone, LAMBDA p : included(sd, p))

\* the regions of the three bands
band_regions(sd) ==
    << Region("top", TRUE, sd["cpu"].height, FALSE),
       Region("middle", FALSE, 0, FALSE),
       Region("bottom", TRUE, sd["now"].height, FALSE) >>

\* the columns of the top band
top_regions(sd) ==
    LET ps == composed_of(sd, _top)
    IN  [i \in DOMAIN ps |-> IF ps[i] = "quicklook"
                             THEN Region(ps[i], FALSE, 0, FALSE)
                             ELSE Region(ps[i], TRUE, sd[ps[i]].width, TRUE)]

\* the two columns of the middle band
middle_regions ==
    << Region("middle_left", TRUE, _middle_left_width + 8, FALSE),
       Region("middle_right", FALSE, 0, FALSE) >>

\* the stack of the left column, and its padding
middle_left_regions(sd) ==
    LET ps == composed_of(sd, _middle_left)
    IN  [i \in DOMAIN ps |-> Region(ps[i], TRUE, sd[ps[i]].height, TRUE)]
        \o << Region("middle_left_padding", FALSE, 0, FALSE) >>

\* the stack of the right column
middle_right_regions(sd) ==
    LET ps == composed_of(sd, _middle_right)
    IN  [i \in DOMAIN ps |-> IF ps[i] = "processlist"
                             THEN Region(ps[i], FALSE, 0, FALSE)
                             ELSE Region(ps[i], TRUE, sd[ps[i]].height, TRUE)]

\* the splits of update_layout, in order, on the descriptors sd: each one needs the
\* descriptors of the named plugins (a KeyError otherwise) and then splits a region
layout_steps(sd) ==
    << [needs |-> {"cpu", "now"},       parent |-> "root"],
       [needs |-> Range(_top),          parent |-> "top"],
       [needs |-> {},                   parent |-> "middle"],
       [needs |-> Range(_middle_left),  parent |-> "middle_left"],
       [needs |-> Range(_middle_right), parent |-> "middle_right"],
       [needs |-> {},                   parent |-> "bottom"] >>

\* the children one split of update_layout gives its region
regions_of(sd, parent) ==
    CASE parent = "root" -> band_regions(sd)
      [] parent = "top" -> top_regions(sd)
      [] parent = "middle" -> middle_regions
      [] parent = "middle_left" -> middle_left_regions(sd)
      [] parent = "middle_right" -> middle_right_regions(sd)
      [] parent = "bottom" -> << Region("bottom", FALSE, 0, FALSE) >>

RECURSIVE run_splits(_, _, _)
\* the splits from step i on, stopping at the first KeyError
run_splits(l, sd, i) ==
    LET steps == layout_steps(sd)
    IN  IF i > Len(steps) THEN [exc |-> "", layout |-> l]
        ELSE IF ~(steps[i].needs \subseteq DOMAIN sd) THEN [exc |-> "KeyError", layout |-> l]
        ELSE run_splits(split(l, steps[i].parent, regions_of(sd, steps[i].parent)), sd, i + 1)

\* update_layout() on the tree l with the stats object st
update_layout(l, st) ==
    LET fetched == plugins_to_rich(st, AllPlugins,
                       [exc |-> "", ret |-> EmptyDict, max_processes |-> max_processes])
        done    == run_splits(l, fetched.ret, 1)
    IN  IF fetched.exc # ""
        THEN [exc |-> fetched.exc, layout |-> l, stats_display |-> fetched.ret,
              max_processes |-> fetched.max_processes]
        ELSE [exc |-> done.exc, layout |-> done.layout, stats_display |-> fetched.ret,
              max_processes |-> fetched.max_processes]

\* GlancesRich.__init__: self.layout = Layout(); every plugin answers ordinarily
InitLayout ==
    /\ plugins = [p \in PluginNames |-> Nominal]
    /\ layout = EmptyLayout
    /\ stats_display = EmptyDict
    /\ layout_status = "ok"
    /\ layout_exc = ""
    /\ prev_layout = EmptyLayout
    /\ compose_run = 0
    /\ max_processes = 0

\* the sampling before the first cycle leaves plugin p answering a; at most
\* MaxDeviating plugins come to answer out of the ordinary
Sample(p, a) ==
    /\ compose_run = 0
    /\ plugins[p] = Nominal
    /\ Cardinality({q \in PluginNames : plugins[q] # Nominal}) < MaxDeviating
    /\ plugins' = [plugins EXCEPT ![p] = a]
    /\ UNCHANGED <<layout, stats_display, layout_status, layout_exc, prev_layout,
                   compose_run, max_processes>>

\* update_layout(stats)
UpdateLayout ==
    /\ layout_status = "ok"
    /\ LET r == update_layout(layout, plugins)
       IN  /\ layout' = r.layout
           /\ stats_display' = r.stats_display
           /\ layout_exc' = r.exc
           /\ layout_status' = IF r.exc = "" THEN "ok" ELSE "raised"
           /\ max_processes' = r.max_processes
    /\ prev_layout' = layout
    /\ compose_run' = IF compose_run < 2 THEN compose_run + 1 ELSE 2
    /\ UNCHANGED plugins

-----------------------------------------------------------------------------
(***************************************************************************)
(* glances/outputs/glances_rich.py: update, the refresh loop               *)
(***************************************************************************)

\* the keys of the model: escape, 'q' and one other key
ESC == "\\x1b"

Keys == {ESC, "q", "a"}

\* ord() of a key
ord(k) == CASE k = ESC -> 27 [] k = "q" -> 113 [] k = "a" -> 97

\* "pressedkey == ord('\x1b')": escape alone
exit_key_escape_only(pressed) == pressed = ord(ESC)

\* "pressedkey == ord('\x1b') or pressedkey == ord('q')"
exit_key(pressed) == pressed = ord(ESC) \/ pressed = ord("q")

\* the floor of a duration <= 0, 0.1 s, in tenths of a second
duration_floor == 1

\* Timer(duration): the countdown starts with the whole duration left
Timer(d) == d

\* Timer.finished(): the countdown has expired
finished(c) == c <= 0

\* Timer.get(): the countdown's remaining slice
get(c) == c

\* KBHit.kbhit(): a key is pending
kbhit(buffer) == buffer # << >>

\* KBHit.getch(): the pending key read
getch(buffer) == Head(buffer)

\* the stats objects update() is called with: every plugin ordinary, the cpu
\* plugin disabled, the mem plugin's get_stats_display raising
LoopStats ==
    { [p \in PluginNames |-> Nominal],
      [p \in PluginNames |->
          IF p = "cpu"
          THEN [fetch |-> "ok",
                stat_display |-> [display |-> FALSE,
                                  msgdict |-> [iterable |-> TRUE, items |-> TwoLines]]]
          ELSE Nominal],
      [p \in PluginNames |-> IF p = "mem" THEN [fetch |-> "raise"] ELSE Nominal] }

\* GlancesRich.__init__: no call of update() yet, an empty keyboard buffer
InitUpdate ==
    /\ upd_pc = "idle"
    /\ arg_duration = 0
    /\ duration = 0
    /\ warned = FALSE
    /\ countdown = 0
    /\ isexitkey = FALSE
    /\ pressedkey = -1
    /\ kb = << >>
    /\ ret = FALSE
    /\ keys_read = {}
    /\ cancel_at_entry = FALSE
    /\ redraws = 0
    /\ sleeps = << >>

\* update(stats, d) is called, by the owner that stops once update returned true:
\* the floor of the duration, isexitkey = False, countdown = Timer(duration)
UpdateCall(st, d) ==
    /\ upd_pc = "idle" \/ (upd_pc = "returned" /\ ~ret)
    /\ plugins' = st
    /\ compose_run' = IF st = plugins THEN compose_run ELSE 0
    /\ arg_duration' = d
    /\ warned' = (d <= 0)
    /\ duration' = IF d <= 0 THEN duration_floor ELSE d
    /\ isexitkey' = FALSE
    /\ countdown' = Timer(duration')
    /\ keys_read' = {}
    /\ cancel_at_entry' = (kbhit(kb) /\ getch(kb) \in {ESC, "q"})
    /\ redraws' = 0
    /\ sleeps' = << >>
    /\ upd_pc' = "update_layout"
    /\ UNCHANGED <<layout, stats_display, layout_status, layout_exc, prev_layout,
                   max_processes, pressedkey, kb, ret>>

\* self.update_layout(stats)
UpdateCompose ==
    /\ upd_pc = "update_layout"
    /\ UpdateLayout
    /\ upd_pc' = IF layout_status' = "ok" THEN "while" ELSE "raised"
    /\ UNCHANGED <<arg_duration, duration, warned, countdown, isexitkey, pressedkey, kb,
                   ret, keys_read, cancel_at_entry, redraws, sleeps>>

\* "while not countdown.finished() and not isexitkey", and "return isexitkey"
UpdateWhile ==
    /\ upd_pc = "while"
    /\ IF ~finished(countdown) /\ ~isexitkey
       THEN upd_pc' = "kbhit" /\ ret' = ret
       ELSE upd_pc' = "returned" /\ ret' = isexitkey
    /\ UNCHANGED <<layoutVars, arg_duration, duration, warned, countdown, isexitkey,
                   pressedkey, kb, keys_read, cancel_at_entry, redraws, sleeps>>

\* "if self.kb.kbhit(): ... else: ..."
UpdateKbhit ==
    /\ upd_pc = "kbhit"
    /\ IF kbhit(kb)
       THEN /\ pressedkey' = ord(getch(kb))
            /\ isexitkey' = exit_key(pressedkey')
            /\ kb' = Tail(kb)
            /\ keys_read' = keys_read \cup {getch(kb)}
       ELSE /\ pressedkey' = -1
            /\ isexitkey' = FALSE
            /\ UNCHANGED <<kb, keys_read>>
    /\ upd_pc' = "redraw"
    /\ UNCHANGED <<layoutVars, arg_duration, duration, warned, countdown, ret,
                   cancel_at_entry, redraws, sleeps>>

\* self.live.update(self.layout, refresh=True)
UpdateRedraw ==
    /\ upd_pc = "redraw"
    /\ redraws' = redraws + 1
    /\ upd_pc' = "sleep"
    /\ UNCHANGED <<layoutVars, arg_duration, duration, warned, countdown, isexitkey,
                   pressedkey, kb, ret, keys_read, cancel_at_entry, sleeps>>

\* time.sleep(countdown.get()): a negative argument raises ValueError, any other
\* lets that much time pass
UpdateSleep ==
    /\ upd_pc = "sleep"
    /\ sleeps' = Append(sleeps, get(countdown))
    /\ IF get(countdown) < 0
       THEN upd_pc' = "raised" /\ countdown' = countdown
       ELSE upd_pc' = "while" /\ countdown' = countdown - get(countdown)
    /\ UNCHANGED <<layoutVars, arg_duration, duration, warned, isexitkey, pressedkey, kb,
                   ret, keys_read, cancel_at_entry, redraws>>

\* a tenth of a second passes while update() runs
Tick ==
    /\ upd_pc \in {"update_layout", "while", "kbhit", "redraw", "sleep"}
    /\ countdown > 0 - MaxLate
    /\ countdown' = countdown - 1
    /\ UNCHANGED <<layoutVars, upd_pc, arg_duration, duration, warned, isexitkey,
                   pressedkey, kb, ret, keys_read, cancel_at_entry, redraws, sleeps>>

\* the user presses a key
KeyPress(k) ==
    /\ upd_pc \notin {"raised", "ended"}
    /\ Len(kb) < MaxKeys
    /\ kb' = Append(kb, k)
    /\ UNCHANGED <<layoutVars, upd_pc, arg_duration, duration, warned, countdown,
                   isexitkey, pressedkey, ret, keys_read, cancel_at_entry, redraws, sleeps>>

\* end(), once update() returned true
End ==
    /\ upd_pc = "returned"
    /\ ret
    /\ upd_pc' = "ended"
    /\ UNCHANGED <<layoutVars, arg_duration, duration, warned, countdown, isexitkey,
                   pressedkey, kb, ret, keys_read, cancel_at_entry, redraws, sleeps>>

-----------------------------------------------------------------------------
(***************************************************************************)
(* glances/plugins/cpu/model.py                                            *)
(***************************************************************************)

\* psutil.cpu_stats()._fields
cpu_stats_fields == {"ctx_switches", "interrupts", "soft_interrupts", "syscalls"}

\* psutil.cpu_times_percent()._fields: the three every platform has
cpu_times_percent_fields == {"user", "system", "idle"}

\* the tables of snmp_oid, by system, as the names they query
snmp_oid ==
    [default |-> {"user", "system", "idle"},
     windows |-> {"percent"},
     esxi    |-> {"percent"},
     netapp  |-> {"system", "idle", "cpucore"}]

\* self.nb_log_core, as __init__ leaves it when the core plugin cannot answer
nb_log_core == 1

\* GlancesPluginModel.get_init_value(): the init value of a dict plugin
get_init_value == EmptyDict

\* what psutil.cpu_stats() may answer (integers; never None)
RawCounters == [cpu_stats_fields -> 0..MaxRaw]

\* what cpu_percent.get() and psutil.cpu_times_percent() may answer
PercentSamples ==
    { [total |-> 15, user |-> 10, system |-> 5, idle |-> 85],
      [total |-> 0,  user |-> 0,  system |-> 0, idle |-> 100] }


\* what one SNMP scalar may come back as: empty when unavailable, else a numeral
SnmpValues == {"", "5", "85"}

\* float(s) succeeds on a numeral and raises ValueError on ''
float_ok(s) == s # ""

\* float(s) of a numeral
float(s) == CASE s = "5" -> 5 [] s = "85" -> 85 [] OTHER -> 0

\* GlancesPluginModel.reset(): self.stats = self.get_init_value()
reset == get_init_value

\* the delta of one cumulative counter (update_local, "Others calls...")
counter_delta(cur, old) == cur - old

\* update_local(): the Snapshot built from one psutil reading
update_local(pct, raw, elapsed) ==
    LET percents == [k \in {"total"} \cup cpu_times_percent_fields |-> pct[k]]
        extras   == ("time_since_update" :> elapsed) @@ ("cpucore" :> nb_log_core)
        counters == IF ~has_cpu_stats_old
                    THEN [k \in cpu_stats_fields |-> 0]
                    ELSE [k \in cpu_stats_fields |->
                              counter_delta(raw[k], cpu_stats_old[k])]
    IN  percents @@ extras @@ counters

\* update_snmp(), Windows / ESXi branch.  keyerror: get_stats_snmp raised KeyError;
\* otherwise the walk answered the rows percent.1 .. percent.n, row 3 holding v3.
\* exc: the exception let out ("" when none); self_stats: self.stats when the
\* method ends; ret: the value returned.
update_snmp_bulk(keyerror, n, v3) ==
    IF keyerror
    THEN \* except KeyError: self.reset(); then "for c in cpu_stats" reads a
         \* local that was never bound
         [exc |-> "UnboundLocalError", self_stats |-> reset, ret |-> get_init_value]
    ELSE IF n = 0
    THEN [exc |-> "", self_stats |-> stats,
          ret |-> ("nb_log_core" :> 0) @@ ("idle" :> 100 - 0) @@ ("total" :> 100 - (100 - 0))]
    ELSE IF n < 3
    THEN [exc |-> "KeyError", self_stats |-> stats, ret |-> get_init_value]
    ELSE IF ~float_ok(v3)
    THEN [exc |-> "ValueError", self_stats |-> stats, ret |-> get_init_value]
    ELSE LET sum  == n * float(v3)
             idle == 100 - (sum \div n)
         IN  [exc |-> "", self_stats |-> stats,
              ret |-> ("nb_log_core" :> n) @@ ("idle" :> idle) @@ ("total" :> 100 - idle)]

\* the table the default branch queries: snmp_oid[short_system_name], or on
\* KeyError snmp_oid['default']
snmp_table(name) ==
    IF name \in DOMAIN snmp_oid THEN snmp_oid[name] ELSE snmp_oid["default"]

\* update_snmp(), default branch.  ans: what get_stats_snmp answered, one value
\* per name of the table.
update_snmp_scalar(ans) ==
    IF "idle" \notin DOMAIN ans
    THEN [exc |-> "KeyError", self_stats |-> stats, ret |-> get_init_value]
    ELSE IF ans["idle"] = ""
    THEN [exc |-> "", self_stats |-> reset, ret |-> reset]
    ELSE IF \E k \in DOMAIN ans : ~float_ok(ans[k])
    THEN [exc |-> "ValueError", self_stats |-> stats, ret |-> get_init_value]
    ELSE [exc |-> "", self_stats |-> stats,
          ret |-> [k \in DOMAIN ans |-> float(ans[k])] @@ ("total" :> 100 - float(ans["idle"]))]

\* get_trend(item) answers None while the history of the item is too short, else
\* the slope of the retained values
None == [avail |-> FALSE, val |-> 0]

Trends == {None} \cup {[avail |-> TRUE, val |-> v] : v \in -1..1}

\* no header built yet
NoHeader == [built |-> FALSE, trend_user |-> None, trend_system |-> None,
             exc |-> "", trend_cpu |-> None]

\* number + number, and number + None raising TypeError
add_trends(a, b) ==
    IF b = None
    THEN [exc |-> "TypeError", ret |-> None]
    ELSE [exc |-> "", ret |-> [avail |-> TRUE, val |-> a.val + b.val]]

\* msg_curse(), the header: "if trend_user is None or trend_user is None:
\* trend_cpu = None  else: trend_cpu = trend_user + trend_system"
trend_cpu(trend_user, trend_system) ==
    IF trend_user = None \/ trend_user = None
    THEN [exc |-> "", ret |-> None]
    ELSE add_trends(trend_user, trend_system)

\* msg_curse(): "" when every line is built, else the exception the first failing
\* line raises; "empty" when it returns [] at once.
msg_curse(disabled, linux, trend_user, trend_system) ==
    LET tsu_missing == "time_since_update" \notin DOMAIN stats
        divide(k)   == IF k \notin DOMAIN stats THEN ""
                       ELSE IF tsu_missing THEN "KeyError"
                       ELSE IF stats["time_since_update"] = 0 THEN "ZeroDivisionError"
                       ELSE ""
        idle_tag    == "user" \notin DOMAIN stats
        steps == << trend_cpu(trend_user, trend_system).exc,
                    IF "total" \in DOMAIN stats THEN "" ELSE "KeyError",
                    divide("ctx_switches"),
                    divide("interrupts"),
                    IF "system" \in DOMAIN stats /\ ~idle_tag THEN ""
                    ELSE IF "nb_log_core" \in DOMAIN stats THEN "" ELSE "KeyError",
                    divide("soft_interrupts"),
                    IF linux THEN "" ELSE divide("syscalls") >>
        failing == {i \in DOMAIN steps : steps[i] # ""}
    IN  IF stats = EmptyDict \/ disabled THEN "empty"
        ELSE IF failing = {} THEN ""
        ELSE steps[CHOOSE i \in failing : \A j \in failing : i <= j]

InitCpu ==
    /\ input_method \in {"local", "snmp", "other"}
    \* the SNMP system name is only set (and read) by the SNMP input method
    /\ short_system_name \in IF input_method = "snmp"
                              THEN {"linux", "netapp", "windows", "esxi"}
                              ELSE {"none"}
    /\ has_cpu_stats_old = FALSE
    /\ cpu_stats_old = [k \in cpu_stats_fields |-> 0]
    /\ stats = get_init_value
    /\ cpu_status = "ok"
    /\ last_call = "__init__"
    /\ curse = "none"
    /\ snmp_unavailable = FALSE
    /\ header = NoHeader
    /\ InitLayout
    /\ InitUpdate

\* update() with input_method == 'local'
UpdateLocal ==
    /\ cpu_status = "ok"
    /\ input_method = "local"
    /\ \E pct \in PercentSamples, raw \in RawCounters, elapsed \in 1..MaxElapsed :
          /\ stats' = update_local(pct, raw, elapsed)
          /\ cpu_stats_old' = raw
    /\ has_cpu_stats_old' = TRUE
    /\ last_call' = "update"
    /\ UNCHANGED <<input_method, short_system_name, cpu_status, curse, snmp_unavailable,
                   header, layoutVars, updVars>>

\* update() with input_method == 'snmp', the Windows / ESXi branch of update_snmp
UpdateSnmpBulk ==
    /\ cpu_status = "ok"
    /\ input_method = "snmp"
    /\ short_system_name \in {"windows", "esxi"}
    /\ \E ke \in BOOLEAN, n \in 0..MaxCores, v3 \in SnmpValues :
          LET r == update_snmp_bulk(ke, n, v3)
          IN  /\ stats' = IF r.exc = "" THEN r.ret ELSE r.self_stats
              /\ cpu_status' = IF r.exc = "" THEN "ok" ELSE "raised"
              /\ snmp_unavailable' = (ke \/ (n >= 3 /\ v3 = ""))
    /\ last_call' = "update"
    /\ UNCHANGED <<input_method, short_system_name, has_cpu_stats_old, cpu_stats_old, curse,
                   header, layoutVars, updVars>>

\* update() with input_method == 'snmp', the default branch of update_snmp
UpdateSnmpScalar ==
    /\ cpu_status = "ok"
    /\ input_method = "snmp"
    /\ short_system_name \notin {"windows", "esxi"}
    /\ \E ans \in [snmp_table(short_system_name) -> SnmpValues] :
          LET r == update_snmp_scalar(ans)
          IN  /\ stats' = IF r.exc = "" THEN r.ret ELSE r.self_stats
              /\ cpu_status' = IF r.exc = "" THEN "ok" ELSE "raised"
              /\ snmp_unavailable' = (\E k \in DOMAIN ans : ans[k] = "")
    /\ last_call' = "update"
    /\ UNCHANGED <<input_method, short_system_name, has_cpu_stats_old, cpu_stats_old, curse,
                   header, layoutVars, updVars>>

\* update() with any other input method
UpdateOther ==
    /\ cpu_status = "ok"
    /\ input_method \notin {"local", "snmp"}
    /\ stats' = get_init_value
    /\ last_call' = "update"
    /\ UNCHANGED <<input_method, short_system_name, has_cpu_stats_old, cpu_stats_old,
                   cpu_status, curse, snmp_unavailable, header,
                   layoutVars, updVars>>

\* get_stats_display() -> msg_curse() on the current Snapshot
MsgCurse ==
    /\ cpu_status = "ok"
    /\ last_call = "update"
    /\ \E disabled \in BOOLEAN, linux \in BOOLEAN, tu \in Trends, ts \in Trends :
          /\ curse' = msg_curse(disabled, linux, tu, ts)
          /\ header' = IF curse' = "empty"
                       THEN NoHeader
                       ELSE [built |-> TRUE, trend_user |-> tu, trend_system |-> ts,
                             exc |-> trend_cpu(tu, ts).exc,
                             trend_cpu |-> trend_cpu(tu, ts).ret]
    /\ cpu_status' = IF curse' \in {"", "empty"} THEN "ok" ELSE "raised"
    /\ last_call' = "msg_curse"
    /\ UNCHANGED <<input_method, short_system_name, has_cpu_stats_old, cpu_stats_old, stats,
                   snmp_unavailable, layoutVars, updVars>>

NextCpu == UpdateLocal \/ UpdateSnmpBulk \/ UpdateSnmpScalar \/ UpdateOther \/ MsgCurse

SpecCpu == InitCpu /\ [][NextCpu]_vars

-----------------------------------------------------------------------------
(***************************************************************************)
(* Claims about the CPU plugin (checked under SpecCpu)                     *)
(***************************************************************************)

\* C1: in every update_local sample each cumulative counter field is emitted as 0
\* on the first sample and as max(0, current_raw - previous_raw) on every later
\* one, previous_raw being what the preceding sample read; never negative.
C1_DeltaIsClampedDifference ==
    [][ (last_call' = "update" /\ input_method = "local") =>
          \A k \in cpu_stats_fields :
              stats'[k] = IF ~has_cpu_stats_old THEN 0
                          ELSE Max(0, cpu_stats_old'[k] - cpu_stats_old[k]) ]_vars

\* C6: every Snapshot update() produces, whatever the input method, holds a
\* time_since_update that is > 0.
C6_TimeSinceUpdatePositive ==
    (last_call = "update" /\ cpu_status = "ok") =>
        /\ "time_since_update" \in DOMAIN stats
        /\ stats["time_since_update"] > 0

\* C10: in SNMP mode, when a remote field is unavailable update_snmp does not
\* raise and the Snapshot of the cycle is exactly the init value.
C10_SnmpUnavailableResets ==
    (last_call = "update" /\ input_method = "snmp" /\ snmp_unavailable) =>
        /\ cpu_status = "ok"
        /\ stats = get_init_value

\* C11: in the header msg_curse builds, the combined trend of user and system is
\* None whenever either of the two trends is None, it is their sum only when
\* both are available, and computing it does not raise.
C11_CombinedTrendUnavailableIfEither ==
    (last_call = "msg_curse" /\ header.built) =>
        /\ header.exc = ""
        /\ header.trend_cpu =
              IF header.trend_user = None \/ header.trend_system = None
              THEN None
              ELSE [avail |-> TRUE,
                    val |-> header.trend_user.val + header.trend_system.val]

-----------------------------------------------------------------------------
InitCpuIdle ==
    /\ input_method = "local"
    /\ short_system_name = "none"
    /\ has_cpu_stats_old = FALSE
    /\ cpu_stats_old = [k \in cpu_stats_fields |-> 0]
    /\ stats = get_init_value
    /\ cpu_status = "ok"
    /\ last_call = "__init__"
    /\ curse = "none"
    /\ snmp_unavailable = FALSE
    /\ header = NoHeader

NextLayout ==
    \/ \E p \in PluginNames, a \in Answers \ {Nominal} :
          Sample(p, a) /\ UNCHANGED <<cpuVars, updVars>>
    \/ UpdateLayout /\ UNCHANGED <<cpuVars, updVars>>

\* the front end as constructed, beside a CPU plugin that is not sampled
InitFrontEnd ==
    /\ InitLayout
    /\ InitCpuIdle
    /\ InitUpdate

SpecLayout == InitFrontEnd /\ [][NextLayout]_vars

-----------------------------------------------------------------------------
(***************************************************************************)
(* Claims about the layout (checked under SpecLayout)                      *)
(***************************************************************************)

\* the names of the regions the zones hold
ZoneNames(l) ==
    UNION { {l[z][i].name : i \in DOMAIN l[z]} :
            z \in {"top", "middle_left", "middle_right", "bottom"} }

\* the descriptor fetch of a plugin fails: get_stats_display raises, its msgdict
\* cannot be read, or the plugin has no descriptor at all
fetch_fails(a) ==
    \/ a.fetch \in {"raise", "absent"}
    \/ a.fetch = "ok" /\ ~msgs_readable(a.stat_display)

\* the plugin answers with display=true and some content
displayable(a) ==
    /\ a.fetch = "ok"
    /\ msgs_readable(a.stat_display)
    /\ a.stat_display.display
    /\ a.stat_display.msgdict.items # << >>

\* the plugin's rendered content is malformed
malformed(a) == a.fetch = "ok" /\ a.stat_display \in BadDisplays

\* C2: after update_layout no plugin whose descriptor has display=false or empty
\* content is a region of any zone, and the tree is the one composed with that
\* plugin's measurements blanked: it influences no region's size.
C2_ExcludedPluginHasNoEffect ==
    (compose_run >= 1 /\ layout_status = "ok") =>
        \A p \in DOMAIN stats_display :
            ~included(stats_display, p) =>
                /\ p \notin ZoneNames(layout)
                /\ layout = run_splits(EmptyLayout,
                                [stats_display EXCEPT ![p].width = 0, ![p].height = 0],
                                1).layout

\* C3: when the descriptor fetch of a plugin fails, update_layout still completes
\* and every other plugin of the top and middle zones with display=true and
\* content is composed.
C3_FailedFetchIsLeftOut ==
    (compose_run >= 1 /\ \E p \in PluginNames : fetch_fails(plugins[p])) =>
        /\ layout_status = "ok"
        /\ \A q \in PluginNames \ Range(_bottom) :
               displayable(plugins[q]) => q \in ZoneNames(layout)

\* C13: after update_layout the height of the top band is the measured height of
\* the first-listed panel among those included in the top band (the CPU panel
\* when it is included), never that of a panel excluded from the band.
C13_TopHeightIsFirstIncluded ==
    (compose_run >= 1 /\ layout_status = "ok"
        /\ composed_of(stats_display, _top) # << >>) =>
        /\ layout.root[1].name = "top"
        /\ layout.root[1].size = stats_display[composed_of(stats_display, _top)[1]].height

\* C8: a second update_layout on the same descriptors leaves the tree exactly as
\* the first one built it: same regions, same order, same sizes, nothing left over.
C8_RecomposeIsIdentical ==
    (compose_run = 2 /\ layout_status = "ok") => layout = prev_layout

\* C8 witness: the tree was composed twice and holds panels in every zone
C8_Witness ==
    /\ compose_run = 2
    /\ layout_status = "ok"
    /\ Len(layout.root) = 3
    /\ Len(layout.top) >= 2
    /\ Len(layout.middle_left) >= 2
    /\ Len(layout.middle_right) >= 1

\* C9: when the content of one plugin is malformed (and no other fetch fails),
\* building its descriptor does not raise: width and height are measured as 0
\* (4 and 2 with the borders) and the cycle goes on.
C9_MalformedMeasuresZero ==
    \A p \in PluginNames :
        ( /\ compose_run >= 1
          /\ malformed(plugins[p])
          /\ \A q \in PluginNames \ {p} : ~fetch_fails(plugins[q]) /\ ~malformed(plugins[q]) )
        => /\ layout_status = "ok"
           /\ p \in DOMAIN stats_display
           /\ stats_display[p].width = 0 + 4
           /\ stats_display[p].height = 0 + 2

-----------------------------------------------------------------------------
\* the durations update() is called with: -0.5 s, 0 s, 0.1 s .. MaxDuration tenths
Durations == {-5, 0} \cup 1..MaxDuration

NextUpdate ==
    \/ \E st \in LoopStats, d \in Durations : UpdateCall(st, d) /\ UNCHANGED cpuVars
    \/ UpdateCompose /\ UNCHANGED cpuVars
    \/ UpdateWhile /\ UNCHANGED cpuVars
    \/ UpdateKbhit /\ UNCHANGED cpuVars
    \/ UpdateRedraw /\ UNCHANGED cpuVars
    \/ UpdateSleep /\ UNCHANGED cpuVars
    \/ Tick /\ UNCHANGED cpuVars
    \/ \E k \in Keys : KeyPress(k) /\ UNCHANGED cpuVars
    \/ End /\ UNCHANGED cpuVars

SpecUpdate == InitFrontEnd /\ [][NextUpdate]_vars

-----------------------------------------------------------------------------
(***************************************************************************)
(* Claims about update (checked under SpecUpdate)                          *)
(***************************************************************************)

\* C4: update returns true exactly when a cancel key (escape or 'q') was read
\* from the keyboard during that call; any other key read leaves it false.
C4_ReturnsTrueIffCancelRead ==
    upd_pc \in {"returned", "ended"} => (ret <=> keys_read \cap {ESC, "q"} # {})

\* C4 witness: a call read 'q' and returned true
C4_Witness ==
    /\ upd_pc = "returned"
    /\ ret
    /\ "q" \in keys_read

\* C5: a call with a duration <= 0 runs with the duration 0.1, logs the warning,
\* and goes through compose and the loop without raising.
C5_FlooredCallDoesNotRaise ==
    (upd_pc # "idle" /\ arg_duration <= 0) =>
        /\ duration = duration_floor
        /\ warned
        /\ upd_pc # "raised"

\* C7: a call that begins while a cancel key heads the keyboard buffer observes it:
\* it returns true.
C7_PendingCancelIsObserved ==
    (upd_pc = "returned" /\ cancel_at_entry) => ret

\* C12: within an iteration of the refresh loop, once the key decoded in that
\* iteration is a cancel key neither the redraw nor the sleep is performed
\* before update returns; an iteration redraws and sleeps only when it decoded no
\* cancel key.
C12_CancelSkipsRedrawAndSleep ==
    [][ (redraws' # redraws \/ sleeps' # sleeps) /\ upd_pc \in {"redraw", "sleep"}
            => ~isexitkey ]_vars

\* C14: whatever the duration and however time passes between the steps of the
\* loop, every sleep of the refresh loop is given a strictly positive duration,
\* and every iteration that redrew goes on to sleep.
C14_EverySleepIsPositive ==
    /\ \A i \in DOMAIN sleeps : sleeps[i] > 0
    /\ upd_pc \in {"while", "returned", "ended"} => Len(sleeps) = redraws

\* C15: every call of update that returns false has redrawn, at least once, the
\* layout its own update_layout composed, also when composing outlasted the
\* duration.
C15_ReturnedFalseHasRedrawn ==
    (upd_pc = "returned" /\ ~ret) => redraws >= 1

=============================================================================



